---- MODULE Spec2Model ----
(***************************************************************************)
(* tile_tool.py: a tile map image and a texture atlas image are turned     *)
(* into OBJ meshes.  gen_tex_coords indexes the atlas by tile hash,        *)
(* gen_mesh walks the map's tiles and emits vertices and faces,            *)
(* break_tile_map splits the map into rectangles of contiguous tiles.      *)
(*                                                                         *)
(* Abstractions.  An image is its pixel width and height plus the content  *)
(* of every tile that next_tile's ranges address (a tile is what           *)
(* img.crop((i, j, i+size, j+size)) returns: its alpha sum and its bytes). *)
(* Coordinates that the code computes with "/" are kept exact: a vertex    *)
(* is stored doubled (2x, 2y, 2z), a texture coordinate as the numerators  *)
(* of u = un / img.width and v = vn / img.height.                          *)
(***************************************************************************)
EXTENDS Integers, Sequences, FiniteSets, TLC

VARIABLES
    pc,         \* position in the program
    size,       \* args.s, the tile size in pixels
    brk,        \* args.b, break mode
    map_img,    \* the tile map image
    atlas_img,  \* the texture atlas image
    pos,        \* the running loop's position (1-based index of the next item)
    tex,        \* gen_tex_coords' locals: [i, tiles]
    mesh,       \* gen_mesh's locals and effects: [cur_vert, verts, faces, warnings, tc]
    grid,       \* break_tile_map's locals: [arr, broken]
    out         \* the files written so far, in order

vars == <<pc, size, brk, map_img, atlas_img, pos, tex, mesh, grid, out>>

---------------------------------------------------------------------------
\* Bounds of the model (pixels).
MaxTileSize == 2
AtlasMaxW == 3
AtlasMaxH == 2
MeshMaxW == 2
MeshMaxH == 2
BreakMaxW == 3
BreakMaxH == 2
MainMaxW == 3
MainMaxH == 2

---------------------------------------------------------------------------
\* Tiles: the alpha sum and the raw bytes of a cropped block.
Transparent == [alpha |-> 0, bytes |-> 0]
TileA == [alpha |-> 4, bytes |-> 1]
TileB == [alpha |-> 4, bytes |-> 2]

None == <<>>

\* Python's range(0, n, step) as a 1-based sequence.
Range(n, step) == [k \in 1..((n + step - 1) \div step) |-> (k - 1) * step]

\* The lattice of tile origins next_tile addresses in a w x h image.
Lattice(w, h, s) == (0..(((h + s - 1) \div s) - 1)) \X (0..(((w + s - 1) \div s) - 1))

\* Image.open: an image of w x h pixels whose tiles are drawn from `contents`.
Images(maxW, maxH, s, contents) ==
    UNION { { [width |-> w, height |-> h, left |-> 0, top |-> 0, data |-> d] :
                d \in [Lattice(w, h, s) -> contents] } :
            <<w, h>> \in (1..maxW) \X (1..maxH) }

\* img.crop(box) for a tile-aligned box (left, top, right, bottom).
crop(img, box) ==
    [width  |-> box[3] - box[1],
     height |-> box[4] - box[2],
     left   |-> img.left + box[1],
     top    |-> img.top + box[2],
     data   |-> img.data]

\* img.crop((i, j, i + s, j + s)): the block at (i, j); what lies outside the
\* stored picture is transparent.
tile_at(img, i, j, s) ==
    LET p == <<(img.top + j) \div s, (img.left + i) \div s>>
    IN  IF p \in DOMAIN img.data THEN img.data[p] ELSE Transparent

\* next_tile as the finite sequence of what it yields: <<tile, x, y>>.
next_tile(img, s) ==
    LET ys == Range(img.height, s)
        xs == Range(img.width, s)
    IN  [k \in 1..(Len(ys) * Len(xs)) |->
            LET j == ys[((k - 1) \div Len(xs)) + 1]
                i == xs[((k - 1) % Len(xs)) + 1]
            IN  <<tile_at(img, i, j, s), i, j>>]

is_empty_tile(tile) == tile.alpha = 0

\* sha1 of the bytes: equal exactly for equal bytes.
tile_hash(tile) == tile.bytes

\* d[k] = v on a dict.
Put(d, k, v) == [x \in (DOMAIN d) \cup {k} |-> IF x = k THEN v ELSE d[x]]

---------------------------------------------------------------------------
\* gen_tex_coords

\* The four texture coordinates of the tile at (x, y), as numerators over
\* (img.width, img.height).
TexQuad(img, x, y, s) ==
    << <<x, img.height - y - s>>,
       <<x, img.height - y>>,
       <<x + s, img.height - y>>,
       <<x + s, img.height - y - s>> >>

\* One iteration of gen_tex_coords' loop on locals st = [i, tiles].
TexStep(st, item, img, s) ==
    IF is_empty_tile(item[1])
    THEN st
    ELSE [i     |-> st.i + 4,
          tiles |-> Put(st.tiles, tile_hash(item[1]),
                        <<st.i, TexQuad(img, item[2], item[3], s)>>)]

TexInit == [i |-> 1, tiles |-> <<>>]

RECURSIVE TexLoop(_, _, _, _, _)
TexLoop(st, items, k, img, s) ==
    IF k > Len(items) THEN st
    ELSE TexLoop(TexStep(st, items[k], img, s), items, k + 1, img, s)

gen_tex_coords(img, s) == TexLoop(TexInit, next_tile(img, s), 1, img, s).tiles

---------------------------------------------------------------------------
\* gen_mesh

\* The four vertices of the tile at (x, y), doubled.
TileVerts(img, x, y, s) ==
    << <<-(2 * x - img.width), -(2 * (y + s)) + img.height, 0>>,
       <<-(2 * x - img.width), -(2 * y) + img.height, 0>>,
       <<-(2 * (x + s) - img.width), -(2 * y) + img.height, 0>>,
       <<-(2 * (x + s) - img.width), -(2 * (y + s)) + img.height, 0>> >>

\* gen_mesh counting the vertices only of the tiles it finds in the atlas.
MeshStepCountFound(st, item, img, s) ==
    IF is_empty_tile(item[1])
    THEN st
    ELSE LET vs == st.verts \o TileVerts(img, item[2], item[3], s)
         IN  IF tile_hash(item[1]) \notin DOMAIN st.tc
             THEN [st EXCEPT !.verts = vs,
                             !.warnings = Append(@, <<item[3] \div s, item[2] \div s>>)]
             ELSE LET cv == st.cur_vert + 4
                      t0 == st.tc[tile_hash(item[1])][1]
                      tri_a == << <<cv - 3, t0>>, <<cv - 2, t0 + 1>>, <<cv - 1, t0 + 2>> >>
                      tri_b == << <<cv - 3, t0>>, <<cv - 1, t0 + 2>>, <<cv, t0 + 3>> >>
                  IN  [st EXCEPT !.cur_vert = cv,
                                 !.verts = vs,
                                 !.faces = @ \o <<tri_a, tri_b>>]

\* gen_mesh looking the tile up before it appends the vertices.
MeshStepLookupFirst(st, item, img, s) ==
    IF is_empty_tile(item[1])
    THEN st
    ELSE IF tile_hash(item[1]) \notin DOMAIN st.tc
         THEN [st EXCEPT !.warnings = Append(@, <<item[3] \div s, item[2] \div s>>)]
         ELSE LET cv == st.cur_vert + 4
                  t0 == st.tc[tile_hash(item[1])][1]
                  tri_a == << <<cv - 3, t0>>, <<cv - 2, t0 + 1>>, <<cv - 1, t0 + 2>> >>
                  tri_b == << <<cv - 3, t0>>, <<cv - 1, t0 + 2>>, <<cv, t0 + 3>> >>
              IN  [st EXCEPT !.cur_vert = cv,
                             !.verts = st.verts \o TileVerts(img, item[2], item[3], s),
                             !.faces = @ \o <<tri_a, tri_b>>]

\* One iteration of gen_mesh's loop on st = [cur_vert, verts, faces, warnings, tc].
MeshStep(st, item, img, s) ==
    IF is_empty_tile(item[1])
    THEN st
    ELSE LET cv == st.cur_vert + 4
             vs == st.verts \o TileVerts(img, item[2], item[3], s)
         IN  IF tile_hash(item[1]) \notin DOMAIN st.tc
             THEN [st EXCEPT !.cur_vert = cv,
                             !.verts = vs,
                             !.warnings = Append(@, <<item[3] \div s, item[2] \div s>>)]
             ELSE LET t0 == st.tc[tile_hash(item[1])][1]
                      tri_a == << <<cv - 3, t0>>, <<cv - 2, t0 + 1>>, <<cv - 1, t0 + 2>> >>
                      tri_b == << <<cv - 3, t0>>, <<cv - 1, t0 + 2>>, <<cv, t0 + 3>> >>
                  IN  [st EXCEPT !.cur_vert = cv,
                                 !.verts = vs,
                                 !.faces = @ \o <<tri_a, tri_b>>]

MeshInit(tc, warnings) ==
    [cur_vert |-> 0, verts |-> <<>>, faces |-> <<>>, warnings |-> warnings, tc |-> tc]

RECURSIVE MeshLoop(_, _, _, _, _)
MeshLoop(st, items, k, img, s) ==
    IF k > Len(items) THEN st
    ELSE MeshLoop(MeshStep(st, items[k], img, s), items, k + 1, img, s)

gen_mesh(img, tc, warnings, s) ==
    MeshLoop(MeshInit(tc, warnings), next_tile(img, s), 1, img, s)

---------------------------------------------------------------------------
\* break_tile_map

Rows(arr) == Cardinality(DOMAIN arr)
Cols(arr) == IF Rows(arr) = 0 THEN 0 ELSE Cardinality(DOMAIN arr[0])

\* The cells of arr in the order the nested loops visit them: <<row, column>>.
Cells(arr) ==
    [k \in 1..(Rows(arr) * Cols(arr)) |-> <<(k - 1) \div Cols(arr), (k - 1) % Cols(arr)>>]

\* w = int(img.width / tile_size); h = int(img.height / tile_size); arr = zeros.
ZeroGrid(img, s) ==
    [r \in 0..((img.height \div s) - 1) |-> [c \in 0..((img.width \div s) - 1) |-> 0]]

GridInit(img, s) == [arr |-> ZeroGrid(img, s), broken |-> <<>>, raised |-> ""]

\* One iteration of the loop that sets non empty tiles to 1; arr[r][c] = 1 raises
\* IndexError outside the lists.
GridStep(g, item, s) ==
    IF is_empty_tile(item[1])
    THEN g
    ELSE LET r == item[3] \div s
             c == item[2] \div s
         IN  IF r \in DOMAIN g.arr /\ c \in DOMAIN g.arr[r]
             THEN [g EXCEPT !.arr[r][c] = 1]
             ELSE [g EXCEPT !.raised = "IndexError"]

Min(a, b) == IF a < b THEN a ELSE b
Max(a, b) == IF a > b THEN a ELSE b
Abs(a) == IF a < 0 THEN -a ELSE a

\* _is_rect_full looking only at the row of a and the column of b.
_is_rect_full_edges(arr, a, b) ==
    IF a[1] = b[1] /\ a[2] = b[2]
    THEN TRUE
    ELSE /\ \A c \in Min(a[2], b[2])..Max(a[2], b[2]) : arr[a[1]][c] # 0
         /\ \A r \in Min(a[1], b[1])..Max(a[1], b[1]) : arr[r][b[2]] # 0

_is_rect_full(arr, a, b) ==
    IF a[1] = b[1] /\ a[2] = b[2]
    THEN TRUE
    ELSE \A r \in Min(a[1], b[1])..Max(a[1], b[1]) :
            \A c \in Min(a[2], b[2])..Max(a[2], b[2]) : arr[r][c] # 0

\* if tot >= max_so_far[0]
LargerOrEqual(tot, max_so_far) == tot >= max_so_far[1]

\* if tot > max_so_far[0]
Larger(tot, max_so_far) == tot > max_so_far[1]

\* One iteration of _find_max_rect's loops, at cell (i, j).
FindStep(arr, r, c, s, i, j, max_so_far) ==
    IF arr[i][j] = 0
    THEN max_so_far
    ELSE IF _is_rect_full(arr, <<r, c>>, <<i, j>>)
         THEN LET tot == (Abs(r - i) + 1) * (Abs(c - j) + 1)
              IN  IF Larger(tot, max_so_far)
                  THEN <<tot, <<Min(c, j) * s, Min(r, i) * s,
                                (Max(c, j) + 1) * s, (Max(r, i) + 1) * s>> >>
                  ELSE max_so_far
         ELSE max_so_far

RECURSIVE FindLoop(_, _, _, _, _, _)
FindLoop(arr, r, c, s, k, max_so_far) ==
    IF k > Len(Cells(arr)) THEN max_so_far
    ELSE FindLoop(arr, r, c, s, k + 1,
                  FindStep(arr, r, c, s, Cells(arr)[k][1], Cells(arr)[k][2], max_so_far))

_find_max_rect(arr, r, c, s) == FindLoop(arr, r, c, s, 1, <<-1, None>>)[2]

\* The clearing loop starting one row late.
ClearRectLate(arr, box, s) ==
    [i \in DOMAIN arr |->
        [j \in DOMAIN arr[i] |->
            IF /\ i \in ((box[2] \div s) + 1)..((box[4] \div s) - 1)
               /\ j \in (box[1] \div s)..((box[3] \div s) - 1)
            THEN 0
            ELSE arr[i][j]]]

\* clear this rect from the array
ClearRect(arr, box, s) ==
    [i \in DOMAIN arr |->
        [j \in DOMAIN arr[i] |->
            IF /\ i \in (box[2] \div s)..((box[4] \div s) - 1)
               /\ j \in (box[1] \div s)..((box[3] \div s) - 1)
            THEN 0
            ELSE arr[i][j]]]

\* One iteration of the partitioning loops, at cell (r, c).
ScanStep(g, cell, img, s) ==
    IF g.arr[cell[1]][cell[2]] = 1
    THEN LET box == _find_max_rect(g.arr, cell[1], cell[2], s)
         IN  [g EXCEPT !.broken = Append(@, crop(img, box)),
                       !.arr = ClearRect(g.arr, box, s)]
    ELSE g

RECURSIVE GridLoop(_, _, _, _)
GridLoop(g, items, k, s) ==
    IF k > Len(items) \/ g.raised # "" THEN g
    ELSE GridLoop(GridStep(g, items[k], s), items, k + 1, s)

RECURSIVE ScanLoop(_, _, _, _)
ScanLoop(g, k, img, s) ==
    IF k > Len(Cells(g.arr)) THEN g
    ELSE ScanLoop(ScanStep(g, Cells(g.arr)[k], img, s), k + 1, img, s)

break_tile_map(img, s) ==
    LET g == GridLoop(GridInit(img, s), next_tile(img, s), 1, s)
    IN  IF g.raised # "" THEN g ELSE ScanLoop(g, 1, img, s)

---------------------------------------------------------------------------
\* write_obj_file

\* sorted(list(tc.values())): ascending by the first component.
RECURSIVE sorted(_)
sorted(vals) ==
    IF vals = {} THEN <<>>
    ELSE LET m == CHOOSE v \in vals : \A u \in vals : v[1] <= u[1]
         IN  <<m>> \o sorted(vals \ {m})

RECURSIVE Flatten(_)
Flatten(seqs) == IF seqs = <<>> THEN <<>> ELSE seqs[1][2] \o Flatten(Tail(seqs))

\* The vt lines of a file, in order.
VtLines(tc) == Flatten(sorted({tc[k] : k \in DOMAIN tc}))

\* The file written: its name, v lines, vt lines and f lines.
write_obj_file(name, verts, tc, faces) ==
    [name |-> name, v |-> verts, vt |-> VtLines(tc), f |-> faces]

---------------------------------------------------------------------------
\* Inputs

Contents == {Transparent, TileA, TileB}
TileSizes == 1..MaxTileSize

\* A 1 x 1 picture with nothing on it, for the image a run does not read.
Blank == [width |-> 1, height |-> 1, left |-> 0, top |-> 0, data |-> <<>>]

\* An atlas of one row of tiles.
Strip(row, s) ==
    [width |-> Len(row) * s, height |-> s, left |-> 0, top |-> 0,
     data |-> [p \in {0} \X (0..(Len(row) - 1)) |-> row[p[2] + 1]]]

\* The atlases the mesh runs are given: one of the two tiles, or both.
SampleRows == { <<TileA>>, <<TileB, TileA>> }

---------------------------------------------------------------------------
\* gen_tex_coords, one loop iteration per step (SpecAtlas)

AtlasItems == next_tile(atlas_img, size)

InitAtlas ==
    /\ pc = "tex_loop"
    /\ size \in TileSizes
    /\ brk = FALSE
    /\ map_img = Blank
    /\ atlas_img \in Images(AtlasMaxW, AtlasMaxH, size, Contents)
    /\ pos = 1
    /\ tex = TexInit
    /\ mesh = MeshInit(<<>>, <<>>)
    /\ grid = GridInit(map_img, size)
    /\ out = <<>>

TexSkip ==
    /\ pc = "tex_loop"
    /\ pos <= Len(AtlasItems)
    /\ is_empty_tile(AtlasItems[pos][1])
    /\ tex' = TexStep(tex, AtlasItems[pos], atlas_img, size)
    /\ pos' = pos + 1
    /\ UNCHANGED <<pc, size, brk, map_img, atlas_img, mesh, grid, out>>

TexAdd ==
    /\ pc = "tex_loop"
    /\ pos <= Len(AtlasItems)
    /\ ~is_empty_tile(AtlasItems[pos][1])
    /\ tex' = TexStep(tex, AtlasItems[pos], atlas_img, size)
    /\ pos' = pos + 1
    /\ UNCHANGED <<pc, size, brk, map_img, atlas_img, mesh, grid, out>>

TexReturn ==
    /\ pc = "tex_loop"
    /\ pos > Len(AtlasItems)
    /\ pc' = "tex_done"
    /\ UNCHANGED <<size, brk, map_img, atlas_img, pos, tex, mesh, grid, out>>

NextAtlas == TexSkip \/ TexAdd \/ TexReturn

SpecAtlas == InitAtlas /\ [][NextAtlas]_vars

---------------------------------------------------------------------------
\* gen_mesh, one loop iteration per step (SpecMesh)

MapItems == next_tile(map_img, size)

InitMesh ==
    /\ pc = "mesh_loop"
    /\ size \in TileSizes
    /\ brk = FALSE
    /\ map_img \in Images(MeshMaxW, MeshMaxH, size, Contents)
    /\ atlas_img \in { Strip(row, size) : row \in SampleRows }
    /\ pos = 1
    /\ tex = TexLoop(TexInit, AtlasItems, 1, atlas_img, size)
    /\ mesh = MeshInit(tex.tiles, <<>>)
    /\ grid = GridInit(Blank, size)
    /\ out = <<>>

MeshSkip ==
    /\ pc = "mesh_loop"
    /\ pos <= Len(MapItems)
    /\ LET item == MapItems[pos]
       IN
       /\ is_empty_tile(item[1])
       /\ mesh' = MeshStep(mesh, item, map_img, size)
       /\ pos' = pos + 1
       /\ UNCHANGED <<pc, size, brk, map_img, atlas_img, tex, grid, out>>

MeshFound ==
    /\ pc = "mesh_loop"
    /\ pos <= Len(MapItems)
    /\ LET item == MapItems[pos]
       IN
       /\ ~is_empty_tile(item[1])
       /\ tile_hash(item[1]) \in DOMAIN mesh.tc
       /\ mesh' = MeshStep(mesh, item, map_img, size)
       /\ pos' = pos + 1
       /\ UNCHANGED <<pc, size, brk, map_img, atlas_img, tex, grid, out>>

MeshMiss ==
    /\ pc = "mesh_loop"
    /\ pos <= Len(MapItems)
    /\ LET item == MapItems[pos]
       IN
       /\ ~is_empty_tile(item[1])
       /\ tile_hash(item[1]) \notin DOMAIN mesh.tc
       /\ mesh' = MeshStep(mesh, item, map_img, size)
       /\ pos' = pos + 1
       /\ UNCHANGED <<pc, size, brk, map_img, atlas_img, tex, grid, out>>

MeshReturn ==
    /\ pc = "mesh_loop"
    /\ pos > Len(MapItems)
    /\ pc' = "mesh_done"
    /\ UNCHANGED <<size, brk, map_img, atlas_img, pos, tex, mesh, grid, out>>

NextMesh == MeshSkip \/ MeshFound \/ MeshMiss \/ MeshReturn

SpecMesh == InitMesh /\ [][NextMesh]_vars

---------------------------------------------------------------------------
\* break_tile_map, one loop iteration per step (SpecBreak)

InitBreak ==
    /\ pc = "grid_loop"
    /\ size \in TileSizes
    /\ brk = TRUE
    /\ map_img \in Images(BreakMaxW, BreakMaxH, size, {Transparent, TileA})
    /\ atlas_img = Blank
    /\ pos = 1
    /\ tex = TexInit
    /\ mesh = MeshInit(<<>>, <<>>)
    /\ grid = GridInit(map_img, size)
    /\ out = <<>>

GridSkip ==
    /\ pc = "grid_loop"
    /\ pos <= Len(MapItems)
    /\ is_empty_tile(MapItems[pos][1])
    /\ grid' = GridStep(grid, MapItems[pos], size)
    /\ pos' = pos + 1
    /\ UNCHANGED <<pc, size, brk, map_img, atlas_img, tex, mesh, out>>

GridSet ==
    /\ pc = "grid_loop"
    /\ pos <= Len(MapItems)
    /\ ~is_empty_tile(MapItems[pos][1])
    /\ GridStep(grid, MapItems[pos], size).raised = ""
    /\ grid' = GridStep(grid, MapItems[pos], size)
    /\ pos' = pos + 1
    /\ UNCHANGED <<pc, size, brk, map_img, atlas_img, tex, mesh, out>>

GridRaise ==
    /\ pc = "grid_loop"
    /\ pos <= Len(MapItems)
    /\ ~is_empty_tile(MapItems[pos][1])
    /\ GridStep(grid, MapItems[pos], size).raised # ""
    /\ grid' = GridStep(grid, MapItems[pos], size)
    /\ pc' = "raised"
    /\ UNCHANGED <<size, brk, map_img, atlas_img, pos, tex, mesh, out>>

GridDone ==
    /\ pc = "grid_loop"
    /\ pos > Len(MapItems)
    /\ pc' = "scan_loop"
    /\ pos' = 1
    /\ UNCHANGED <<size, brk, map_img, atlas_img, tex, mesh, grid, out>>

ScanCells == Cells(grid.arr)

ScanSkip ==
    /\ pc = "scan_loop"
    /\ pos <= Len(ScanCells)
    /\ grid.arr[ScanCells[pos][1]][ScanCells[pos][2]] # 1
    /\ grid' = ScanStep(grid, ScanCells[pos], map_img, size)
    /\ pos' = pos + 1
    /\ UNCHANGED <<pc, size, brk, map_img, atlas_img, tex, mesh, out>>

ScanClaim ==
    /\ pc = "scan_loop"
    /\ pos <= Len(ScanCells)
    /\ grid.arr[ScanCells[pos][1]][ScanCells[pos][2]] = 1
    /\ grid' = ScanStep(grid, ScanCells[pos], map_img, size)
    /\ pos' = pos + 1
    /\ UNCHANGED <<pc, size, brk, map_img, atlas_img, tex, mesh, out>>

ScanReturn ==
    /\ pc = "scan_loop"
    /\ pos > Len(ScanCells)
    /\ pc' = "break_done"
    /\ UNCHANGED <<size, brk, map_img, atlas_img, pos, tex, mesh, grid, out>>

NextBreak ==
    GridSkip \/ GridSet \/ GridRaise \/ GridDone \/ ScanSkip \/ ScanClaim \/ ScanReturn

SpecBreak == InitBreak /\ [][NextBreak]_vars

---------------------------------------------------------------------------
\* main, one call per step (Spec)

Init ==
    /\ pc = "gen_tex_coords"
    /\ size \in TileSizes
    /\ brk \in BOOLEAN
    /\ map_img \in Images(MainMaxW, MainMaxH, size, Contents)
    /\ atlas_img \in { Strip(row, size) : row \in SampleRows }
    /\ pos = 1
    /\ tex = TexInit
    /\ mesh = MeshInit(<<>>, <<>>)
    /\ grid = GridInit(Blank, size)
    /\ out = <<>>

\* tc = gen_tex_coords(atlas_img, args.s)
MainTexCoords ==
    /\ pc = "gen_tex_coords"
    /\ tex' = TexLoop(TexInit, AtlasItems, 1, atlas_img, size)
    /\ pc' = IF brk THEN "break_tile_map" ELSE "gen_mesh"
    /\ UNCHANGED <<size, brk, map_img, atlas_img, pos, mesh, grid, out>>

\* break_tile_map(map_img, args.s) returns the list the loop enumerates
MainBreak ==
    /\ pc = "break_tile_map"
    /\ break_tile_map(map_img, size).raised = ""
    /\ grid' = break_tile_map(map_img, size)
    /\ pos' = 1
    /\ pc' = "regions"
    /\ UNCHANGED <<size, brk, map_img, atlas_img, tex, mesh, out>>

\* break_tile_map raises: the run ends with a traceback
MainBreakRaise ==
    /\ pc = "break_tile_map"
    /\ break_tile_map(map_img, size).raised # ""
    /\ grid' = break_tile_map(map_img, size)
    /\ pc' = "raised"
    /\ UNCHANGED <<size, brk, map_img, atlas_img, pos, tex, mesh, out>>

\* One iteration of the loop over the regions: gen_mesh, write_obj_file.
MainRegion ==
    /\ pc = "regions"
    /\ pos <= Len(grid.broken)
    /\ mesh' = gen_mesh(grid.broken[pos], tex.tiles, mesh.warnings, size)
    /\ tex' = [tex EXCEPT !.tiles = mesh'.tc]
    /\ out' = Append(out, write_obj_file(<<"map", pos - 1>>, mesh'.verts, mesh'.tc, mesh'.faces))
    /\ pos' = pos + 1
    /\ UNCHANGED <<pc, size, brk, map_img, atlas_img, grid>>

MainRegionsDone ==
    /\ pc = "regions"
    /\ pos > Len(grid.broken)
    /\ pc' = "done"
    /\ UNCHANGED <<size, brk, map_img, atlas_img, pos, tex, mesh, grid, out>>

\* Without -b: one mesh of the whole map.
MainWhole ==
    /\ pc = "gen_mesh"
    /\ mesh' = gen_mesh(map_img, tex.tiles, mesh.warnings, size)
    /\ tex' = [tex EXCEPT !.tiles = mesh'.tc]
    /\ out' = Append(out, write_obj_file(<<"map">>, mesh'.verts, mesh'.tc, mesh'.faces))
    /\ pc' = "done"
    /\ UNCHANGED <<size, brk, map_img, atlas_img, pos, grid>>

Next ==
    MainTexCoords \/ MainBreak \/ MainBreakRaise \/ MainRegion \/ MainRegionsDone \/ MainWhole

Spec == Init /\ [][Next]_vars

---------------------------------------------------------------------------
\* Properties of break_tile_map (SpecBreak)

\* The occupancy grid of the map: the cells whose tile is not empty.
GridCells == (0..((map_img.height \div size) - 1)) \X (0..((map_img.width \div size) - 1))
OrigFilled ==
    { p \in GridCells : ~is_empty_tile(tile_at(map_img, p[2] * size, p[1] * size, size)) }

\* The cells a region covers, and the cells still set in arr.
RegionCells(m) ==
    ((m.top \div size)..(((m.top + m.height) \div size) - 1))
        \X ((m.left \div size)..(((m.left + m.width) \div size) - 1))
ArrFilled == { p \in GridCells : grid.arr[p[1]][p[2]] = 1 }
Claimed == UNION { RegionCells(grid.broken[n]) : n \in 1..Len(grid.broken) }

\* C1: the regions returned are pairwise disjoint, cover only cells filled in the
\* original grid, and together with the cells not yet scanned away make up exactly
\* the originally filled cells; when the scan ends no filled cell is left.
C1_RegionsPartitionFilled ==
    pc \in {"scan_loop", "break_done"} =>
        /\ \A m, n \in 1..Len(grid.broken) :
              m # n => RegionCells(grid.broken[m]) \cap RegionCells(grid.broken[n]) = {}
        /\ \A n \in 1..Len(grid.broken) :
              /\ RegionCells(grid.broken[n]) # {}
              /\ RegionCells(grid.broken[n]) \subseteq OrigFilled
        /\ Claimed \cap ArrFilled = {}
        /\ Claimed \cup ArrFilled = OrigFilled
        /\ pc = "break_done" => ArrFilled = {} /\ Claimed = OrigFilled

C1_Witness ==
    /\ pc = "break_done"
    /\ Len(grid.broken) >= 2
    /\ \E n \in 1..Len(grid.broken) : Cardinality(RegionCells(grid.broken[n])) >= 3
    /\ OrigFilled # GridCells

\* C6: tile iteration visits only tiles that lie fully inside the image, and
\* building the occupancy grid never fails.
C6_OnlyWholeTilesVisited ==
    /\ pc # "raised"
    /\ pc = "scan_loop" =>
          /\ Len(MapItems) = (map_img.height \div size) * (map_img.width \div size)
          /\ \A k \in 1..Len(MapItems) :
                /\ MapItems[k][2] + size <= map_img.width
                /\ MapItems[k][3] + size <= map_img.height

\* The box spanning the trigger (r, c) and (i, j), in cells and in pixels.
Span(r, c, p) == (Min(r, p[1])..Max(r, p[1])) \X (Min(c, p[2])..Max(c, p[2]))
SpanBox(r, c, p) ==
    <<Min(c, p[2]) * size, Min(r, p[1]) * size,
      (Max(c, p[2]) + 1) * size, (Max(r, p[1]) + 1) * size>>
\* The filled cells whose box with the trigger holds no empty cell.
Candidates(r, c) ==
    { p \in GridCells :
        /\ grid.arr[p[1]][p[2]] # 0
        /\ \A q \in Span(r, c, p) : grid.arr[q[1]][q[2]] # 0 }
RowMajor(p) == p[1] * Cols(grid.arr) + p[2]
\* The candidate of maximum area that comes first in the row-major scan.
BestCandidate(r, c) ==
    CHOOSE p \in Candidates(r, c) :
        \A q \in Candidates(r, c) :
            \/ Cardinality(Span(r, c, q)) < Cardinality(Span(r, c, p))
            \/ /\ Cardinality(Span(r, c, q)) = Cardinality(Span(r, c, p))
               /\ RowMajor(p) <= RowMajor(q)

AtFilledCell ==
    /\ pc = "scan_loop"
    /\ pos <= Len(ScanCells)
    /\ grid.arr[ScanCells[pos][1]][ScanCells[pos][2]] = 1

\* C9: at a trigger cell _find_max_rect returns the box of the maximum-area
\* candidate, the first such in row-major order; a completely filled grid ends as
\* one region covering the whole grid.
C9_MaxAreaFirstFound ==
    /\ AtFilledCell =>
          LET r == ScanCells[pos][1]
              c == ScanCells[pos][2]
          IN  /\ Candidates(r, c) # {}
              /\ _find_max_rect(grid.arr, r, c, size) = SpanBox(r, c, BestCandidate(r, c))
    /\ (pc = "break_done" /\ GridCells # {} /\ OrigFilled = GridCells) =>
          grid.broken = << crop(map_img, <<0, 0, Cols(grid.arr) * size, Rows(grid.arr) * size>>) >>

\* A trigger with two candidates of the same, maximum area.
C9_Witness ==
    /\ AtFilledCell
    /\ \E p, q \in Candidates(ScanCells[pos][1], ScanCells[pos][2]) :
          /\ p # q
          /\ Cardinality(Span(ScanCells[pos][1], ScanCells[pos][2], p)) = 2
          /\ Cardinality(Span(ScanCells[pos][1], ScanCells[pos][2], q)) = 2
          /\ \A x \in Candidates(ScanCells[pos][1], ScanCells[pos][2]) :
                Cardinality(Span(ScanCells[pos][1], ScanCells[pos][2], x)) <= 2

\* C10: when the scan is at a cell, every cell before it is cleared; the region
\* chosen at a filled cell has that cell as its top-left tile; the regions are
\* emitted in strictly increasing row-major order of their top-left corners.
C10_TopLeftAndOrder ==
    /\ (pc = "scan_loop" /\ pos <= Len(ScanCells)) =>
          \A k \in 1..(pos - 1) : grid.arr[ScanCells[k][1]][ScanCells[k][2]] = 0
    /\ AtFilledCell =>
          LET box == _find_max_rect(grid.arr, ScanCells[pos][1], ScanCells[pos][2], size)
          IN  /\ box[1] = ScanCells[pos][2] * size
              /\ box[2] = ScanCells[pos][1] * size
    /\ pc \in {"scan_loop", "break_done"} =>
          \A n \in 1..(Len(grid.broken) - 1) :
              \/ grid.broken[n].top < grid.broken[n + 1].top
              \/ /\ grid.broken[n].top = grid.broken[n + 1].top
                 /\ grid.broken[n].left < grid.broken[n + 1].left

\* A later trigger with a filled cell below and to the left of it.
C10_Witness ==
    /\ AtFilledCell
    /\ Len(grid.broken) >= 1
    /\ ScanCells[pos][2] > 0
    /\ \E p \in ArrFilled : p[1] > ScanCells[pos][1] /\ p[2] < ScanCells[pos][2]

---------------------------------------------------------------------------
\* Properties of gen_mesh (SpecMesh)

\* The non-empty tiles among the items the loop has been through, in order.
IsTile(item) == ~is_empty_tile(item[1])
VisitedTiles == SelectSeq(SubSeq(MapItems, 1, pos - 1), IsTile)

\* The faces that reference one of the vertices lo..hi.
FacesUsing(lo, hi) ==
    LET Uses(f) == \E k \in 1..Len(f) : f[k][1] \in lo..hi
    IN  SelectSeq(mesh.faces, Uses)

Found(item) == tile_hash(item[1]) \in DOMAIN mesh.tc

\* C4: the n-th non-empty tile visited contributes the vertices at positions
\* 4n-3..4n whether or not the atlas has it; when the atlas has it with index
\* base t0 its faces are [(4n-3,t0),(4n-2,t0+1),(4n-1,t0+2)] and
\* [(4n-3,t0),(4n-1,t0+2),(4n,t0+3)].
C4_VertexPositions ==
    pc \in {"mesh_loop", "mesh_done"} =>
        LET tiles == VisitedTiles
        IN  /\ Len(mesh.verts) = 4 * Len(tiles)
            /\ \A n \in 1..Len(tiles) :
                  LET item == tiles[n]
                  IN  /\ 4 * n <= Len(mesh.verts)
                      /\ SubSeq(mesh.verts, 4 * n - 3, 4 * n)
                            = TileVerts(map_img, item[2], item[3], size)
                      /\ Found(item) =>
                            LET t0 == mesh.tc[tile_hash(item[1])][1]
                            IN  FacesUsing(4 * n - 3, 4 * n) =
                                  << << <<4 * n - 3, t0>>, <<4 * n - 2, t0 + 1>>, <<4 * n - 1, t0 + 2>> >>,
                                     << <<4 * n - 3, t0>>, <<4 * n - 1, t0 + 2>>, <<4 * n, t0 + 3>> >> >>

\* A tile found in the atlas after a tile that was not.
C4_Witness ==
    /\ pc = "mesh_done"
    /\ \E m, n \in 1..Len(VisitedTiles) :
          m < n /\ ~Found(VisitedTiles[m]) /\ Found(VisitedTiles[n])

\* The (row, column) of the visited tiles the atlas does not have, in order.
RECURSIVE MissedCells(_)
MissedCells(items) ==
    IF items = <<>> THEN <<>>
    ELSE (IF Found(items[1])
          THEN <<>>
          ELSE << <<items[1][3] \div size, items[1][2] \div size>> >>)
         \o MissedCells(Tail(items))

\* C5: a non-empty tile whose hash is not in the atlas index still gets its 4
\* vertices, no face references them, exactly one miss with its (row, column) is
\* reported, the loop goes on, and the atlas index is left as it was built.
C5_MissKeepsVertsNoFaces ==
    pc \in {"mesh_loop", "mesh_done"} =>
        LET tiles == VisitedTiles
        IN  /\ mesh.tc = tex.tiles
            /\ Len(mesh.verts) = 4 * Len(tiles)
            /\ mesh.cur_vert = 4 * Len(tiles)
            /\ mesh.warnings = MissedCells(tiles)
            /\ \A n \in 1..Len(tiles) :
                  ~Found(tiles[n]) => FacesUsing(4 * n - 3, 4 * n) = <<>>
            /\ pc = "mesh_done" => pos = Len(MapItems) + 1

\* Two misses with a found tile in between, in a finished run.
C5_Witness ==
    /\ pc = "mesh_done"
    /\ Len(mesh.warnings) >= 2
    /\ Len(mesh.faces) >= 2
    /\ \E m, n \in 1..Len(VisitedTiles) :
          m < n /\ Found(VisitedTiles[m]) /\ ~Found(VisitedTiles[n])

\* The vertices the specification gives the tile at (x, y) for a mirrorX flag,
\* doubled like the model's.
FlagVerts(img, x, y, s, mirrorX) ==
    LET sx == IF mirrorX THEN -1 ELSE 1
    IN  << <<sx * (2 * x - img.width), -(2 * (y + s)) + img.height, 0>>,
           <<sx * (2 * x - img.width), -(2 * y) + img.height, 0>>,
           <<sx * (2 * (x + s) - img.width), -(2 * y) + img.height, 0>>,
           <<sx * (2 * (x + s) - img.width), -(2 * (y + s)) + img.height, 0>> >>

\* C8: whichever mirrorX the caller supplies, a tile's vertices are those of
\* that flag: X = x - W/2 and x + s - W/2 when false, negated when true; Y and Z
\* the same in both.
C8_MirrorFlagHonoured ==
    pc \in {"mesh_loop", "mesh_done"} =>
        \A mirrorX \in BOOLEAN :
            \A n \in 1..Len(VisitedTiles) :
                /\ 4 * n <= Len(mesh.verts)
                /\ SubSeq(mesh.verts, 4 * n - 3, 4 * n)
                      = FlagVerts(map_img, VisitedTiles[n][2], VisitedTiles[n][3], size, mirrorX)

---------------------------------------------------------------------------
\* Properties of gen_tex_coords (SpecAtlas)

\* The non-empty atlas tiles the loop has been through, in order.
VisitedAtlas == SelectSeq(SubSeq(AtlasItems, 1, pos - 1), IsTile)

\* The first visited item with hash h.
FirstOccurrence(h) ==
    VisitedAtlas[CHOOSE k \in 1..Len(VisitedAtlas) :
                    /\ tile_hash(VisitedAtlas[k][1]) = h
                    /\ \A j \in 1..(k - 1) : tile_hash(VisitedAtlas[j][1]) # h]

\* The distinct hashes in first-encounter order.
RECURSIVE FirstSeen(_, _)
FirstSeen(items, seen) ==
    IF items = <<>> THEN <<>>
    ELSE IF tile_hash(items[1][1]) \in seen
         THEN FirstSeen(Tail(items), seen)
         ELSE <<tile_hash(items[1][1])>>
                \o FirstSeen(Tail(items), seen \cup {tile_hash(items[1][1])})

\* C2: the k-th distinct fingerprint in first-encounter order has index base
\* 4k-3, and the entry with index base b is the vt lines b..b+3 of a file.
C2_IndexBasesDense ==
    pc = "tex_done" =>
        LET order == FirstSeen(VisitedAtlas, {})
        IN  /\ DOMAIN tex.tiles = { order[k] : k \in 1..Len(order) }
            /\ \A k \in 1..Len(order) : tex.tiles[order[k]][1] = 4 * k - 3
            /\ \A h \in DOMAIN tex.tiles :
                  LET b == tex.tiles[h][1]
                  IN  /\ b + 3 <= Len(VtLines(tex.tiles))
                      /\ SubSeq(VtLines(tex.tiles), b, b + 3) = tex.tiles[h][2]

\* C3: the entry of a fingerprint holds the quad and index base of its first
\* occurrence; later occurrences change neither the entry nor the counter.
C3_FirstOccurrenceKept ==
    /\ pc \in {"tex_loop", "tex_done"} =>
          /\ tex.i = 1 + 4 * Cardinality(DOMAIN tex.tiles)
          /\ \A h \in DOMAIN tex.tiles :
                tex.tiles[h][2] = TexQuad(atlas_img, FirstOccurrence(h)[2],
                                          FirstOccurrence(h)[3], size)

---------------------------------------------------------------------------
\* Properties of main (Spec)

\* The map positions (x, y) of the tiles a mesh of image m holds, read back
\* from each quad's top-left vertex and m's offset in the map.
MeshTiles(m, verts) ==
    { << m.left + ((m.width - verts[4 * q - 2][1]) \div 2),
         m.top + ((m.height - verts[4 * q - 2][2]) \div 2) >> :
        q \in 1..(Len(verts) \div 4) }

RECURSIVE SumTiles(_)
SumTiles(files) ==
    IF files = <<>> THEN 0 ELSE (Len(files[1].v) \div 4) + SumTiles(Tail(files))

\* C7: in break mode the sub-meshes, put back at their regions' offsets, hold
\* exactly the tile positions of the one mesh of the undivided map: none lost,
\* none twice, none added, none empty.
C7_BreakKeepsTiles ==
    (brk /\ pc \in {"done", "raised"}) =>
        LET whole == MeshTiles(map_img, gen_mesh(map_img, tex.tiles, <<>>, size).verts)
            parts == UNION { MeshTiles(grid.broken[n], out[n].v) : n \in 1..Len(out) }
        IN  /\ Len(out) = Len(grid.broken)
            /\ parts = whole
            /\ SumTiles(out) = Cardinality(parts)
            /\ \A p \in parts : ~is_empty_tile(tile_at(map_img, p[1], p[2], size))

====
